---- MODULE Spec2Model ----
(***************************************************************************)
(* A model of the aimem mitmproxy addon (src/proxy/interceptor.py): the    *)
(* request/response callbacks of AimemInterceptor, the in-memory           *)
(* pending_requests map, and the SQLite tables it writes (conversations,   *)
(* extractions, links).                                                    *)
(*                                                                         *)
(* Strings are sequences of tokens (a host is a sequence of fragments, a   *)
(* text a sequence of pieces), so that "in", "+" and startswith are        *)
(* substring search, concatenation and prefix.  Time is counted in ticks   *)
(* of 1/TicksPerSecond second: datetime.now().isoformat() keeps the        *)
(* fraction, SQLite's datetime() drops it.                                 *)
(***************************************************************************)
EXTENDS Integers, Sequences, FiniteSets, TLC

VARIABLES
    pending_requests,   \* self.pending_requests: flow id -> entry
    conversations,      \* committed rows of table conversations (row id = index)
    extractions,        \* committed rows of table extractions (row id = index)
    links,              \* committed rows of table links
    writer,             \* the connection holding SQLite's write lock, or NoWriter
    clock,              \* UTC time, in ticks
    tz,                 \* offset of the host's local time from UTC, in seconds
    current_project_id, \* self.current_project_id (None is NoProject)
    flows,              \* per exchange: the request callback's position and bodies
    resp,               \* per response callback invocation: position and locals
    call                \* one call of a function on its own: name, argument, result

vars == <<pending_requests, conversations, extractions, links, writer, clock, tz,
          current_project_id, flows, resp, call>>

----------------------------------------------------------------------------
(* Bounds of the model *)

MaxFlows == 2
MaxRepeated == 1
MaxClock == 600

(* Program constants *)

WindowSeconds == 300
TicksPerSecond == 2
ContextLimit == 10
FallbackLimit == 5
MaxDecisionBullets == 5
MaxRejectionBullets == 3

----------------------------------------------------------------------------
(* Strings *)

Contains(s, p) ==
    \E i \in 1..(Len(s) - Len(p) + 1) : SubSeq(s, i, i + Len(p) - 1) = p

IsPrefix(p, s) == Len(p) <= Len(s) /\ SubSeq(s, 1, Len(p)) = p

LowerFragment(x) ==
    CASE x = "ANTHROPIC" -> "anthropic"
      [] x = "API." -> "api."
      [] x = ".COM" -> ".com"
      [] OTHER -> x

Lower(s) == [i \in 1..Len(s) |-> LowerFragment(s[i])]

----------------------------------------------------------------------------
(* Provider registry *)

TARGET_HOSTS == {
    <<"api.", "anthropic", ".com">>,
    <<"api.", "openai", ".com">>,
    <<"generativelanguage.googleapis", ".com">>,
    <<"api.", "mistral", ".ai">>,
    <<"api.", "cohere", ".ai">>,
    <<"api.", "cohere", ".com">>,
    <<"api.", "groq", ".com">>,
    <<"api.", "together", ".xyz">>,
    <<"api.", "perplexity", ".ai">>,
    <<"api.", "fireworks", ".ai">>,
    <<"api.", "replicate", ".com">>,
    <<"api.", "deepseek", ".com">>,
    <<"localhost", ":", "11434">>,
    <<"127.0.0.1", ":", "11434">>,
    <<"localhost", ":", "1234">>,
    <<"127.0.0.1", ":", "1234">> }

is_target_host_Any(host) == TRUE

is_target_host(host) == \E target \in TARGET_HOSTS : Contains(host, target)

get_tool_from_host(host) ==
    LET h == Lower(host) IN
    IF Contains(h, <<"anthropic">>) THEN "claude"
    ELSE IF Contains(h, <<"openai">>) THEN "openai"
    ELSE IF Contains(h, <<"generativelanguage.googleapis">>) THEN "gemini"
    ELSE IF Contains(h, <<"mistral">>) THEN "mistral"
    ELSE IF Contains(h, <<"cohere">>) THEN "cohere"
    ELSE IF Contains(h, <<"groq">>) THEN "groq"
    ELSE IF Contains(h, <<"together">>) THEN "together"
    ELSE IF Contains(h, <<"perplexity">>) THEN "perplexity"
    ELSE IF Contains(h, <<"fireworks">>) THEN "fireworks"
    ELSE IF Contains(h, <<"replicate">>) THEN "replicate"
    ELSE IF Contains(h, <<"deepseek">>) THEN "deepseek"
    ELSE IF Contains(h, <<"11434">>)
            \/ (Contains(h, <<"localhost">>) /\ ~Contains(h, <<"ollama">>))
         THEN "ollama"
    ELSE IF Contains(h, <<"1234">>) THEN "lmstudio"
    ELSE "unknown"

----------------------------------------------------------------------------
(* JSON request bodies.  A value that the code reads is a record          *)
(* [t |-> its shape, v |-> its content]:                                   *)
(*   "absent"  the key is not in the object                                *)
(*   "text"    a string, v its pieces                                      *)
(*   "list"    a list, v its elements                                      *)
(*   "parts"   an object with a "parts" list, v the texts of the parts     *)
(*   "badparts" an object whose "parts" is not a list                      *)
(*   "noparts" any other value under system_instruction                    *)
(*   "other"   a value of a type the code does not expect                  *)
(* A message is [role, content]; role "nondict" is an element that is no   *)
(* object, role "none" an object without a role.                           *)

Absent == [t |-> "absent", v |-> <<>>]
Other == [t |-> "other", v |-> <<>>]
Text(s) == [t |-> "text", v |-> s]
List(s) == [t |-> "list", v |-> s]
Parts(s) == [t |-> "parts", v |-> s]
Msg(role, content) == [role |-> role, content |-> content]

Body(kind, messages, system, si, preamble) ==
    [kind |-> kind, messages |-> messages, system |-> system,
     system_instruction |-> si, preamble |-> preamble]

ObjectBody(messages, system, si, preamble) ==
    Body("object", messages, system, si, preamble)

(* flow.request.content that is empty, is no JSON, or is JSON but no object *)
EmptyBody == Body("empty", Absent, Absent, Absent, Absent)
BadJsonBody == Body("badjson", Absent, Absent, Absent, Absent)
NonObjectBody == Body("nonobject", Absent, Absent, Absent, Absent)

SEP == "\n\n"

----------------------------------------------------------------------------
(* Request Injector: the body of "if context:" in request().  The state    *)
(* threaded through the three statements is [data, raised, injected];      *)
(* an exception leaves data as mutated so far and skips the rest.          *)

Raise(st) == [st EXCEPT !.raised = TRUE]

SetSystem(st, val) ==
    [st EXCEPT !.data.system = val, !.injected = TRUE]

SetPreamble(st, val) ==
    [st EXCEPT !.data.preamble = val, !.injected = TRUE]

SetMessages(st, val) ==
    [st EXCEPT !.data.messages = val, !.injected = TRUE]

SetSystemInstruction(st, val) ==
    [st EXCEPT !.data.system_instruction = val, !.injected = TRUE]

Prepend_After(context, old) == Text(old.v \o <<SEP>> \o context)

(* context + "\n\n" + old: a TypeError unless old is a string *)
Prepend(context, old) == Text(context \o <<SEP>> \o old.v)

InjectSystem(st, context) ==
    LET old == st.data.system IN
    IF old.t = "absent" THEN SetSystem(st, Text(context))
    ELSE IF old.t = "text" THEN SetSystem(st, Prepend(context, old))
    ELSE Raise(st)

InjectPreamble(st, context) ==
    LET old == st.data.preamble IN
    IF old.t = "absent" THEN SetPreamble(st, Text(context))
    ELSE IF old.t = "text" THEN SetPreamble(st, Prepend(context, old))
    ELSE Raise(st)

(* lines 493-499 *)
UsesSystemField(host, data) ==
    Contains(host, <<"anthropic">>) /\ data.messages.t # "absent"

(* lines 503-510 *)
UsesLeadingMessage(host, data) ==
    ~UsesSystemField(host, data) /\ data.messages.t # "absent"

(* line 513 *)
UsesSystemInstruction(host, data) ==
    Contains(host, <<"generativelanguage.googleapis">>)

(* line 525 *)
UsesPreamble(host, data) == Contains(host, <<"cohere">>)

InjectLeadingMessage(st, context) ==
    LET messages == st.data.messages IN
    IF messages.t # "list" THEN Raise(st)
    ELSE IF messages.v # <<>> /\ messages.v[1].role = "nondict" THEN Raise(st)
    ELSE IF messages.v # <<>> /\ messages.v[1].role = "system" THEN
        LET old == messages.v[1].content IN
        IF old.t # "text" THEN Raise(st)
        ELSE SetMessages(st,
                 List([messages.v EXCEPT ![1].content = Prepend(context, old)]))
    ELSE SetMessages(st, List(<<Msg("system", Text(context))>> \o messages.v))

InjectSystemInstruction(st, context) ==
    LET existing == st.data.system_instruction IN
    IF existing.t = "parts" THEN
        SetSystemInstruction(st, Parts(<<context \o <<SEP>>>> \o existing.v))
    ELSE IF existing.t = "badparts" THEN Raise(st)
    ELSE SetSystemInstruction(st, Parts(<<context>>))

Step1(host, st, context) ==
    IF UsesSystemField(host, st.data)
    THEN InjectSystem(st, context)
    ELSE IF UsesLeadingMessage(host, st.data)
    THEN InjectLeadingMessage(st, context)
    ELSE st

Step2_Elif(host, st, context) ==
    IF ~st.raised /\ ~st.injected /\ UsesSystemInstruction(host, st.data)
    THEN InjectSystemInstruction(st, context)
    ELSE st

Step2(host, st, context) ==
    IF ~st.raised /\ UsesSystemInstruction(host, st.data)
    THEN InjectSystemInstruction(st, context)
    ELSE st

Step3(host, st, context) ==
    IF ~st.raised /\ UsesPreamble(host, st.data)
    THEN InjectPreamble(st, context)
    ELSE st

Inject_Unguarded(host, data, context) ==
    LET st0 == [data |-> data, raised |-> FALSE, injected |-> FALSE] IN
    Step3(host, Step2(host, Step1(host, st0, context), context), context)

(* host is flow.request.host.lower() *)
Inject(host, data, context) ==
    LET st0 == [data |-> data, raised |-> FALSE, injected |-> FALSE] IN
    IF context = <<>> THEN st0
    ELSE Step3(host, Step2(host, Step1(host, st0, context), context), context)

----------------------------------------------------------------------------
(* Time.  datetime.now() is the host's local time and keeps the fraction   *)
(* of the second; SQLite's datetime(x) and datetime('now') are UTC-naive   *)
(* strings with whole seconds.                                             *)

LocalNow == clock + tz * TicksPerSecond

(* datetime(timestamp): the fraction is dropped *)
SqlDatetime(ticks) == ticks \div TicksPerSecond

(* datetime('now', '-N seconds') *)
SqlNowMinus(seconds) == (clock \div TicksPerSecond) - seconds

(* now.strftime("%Y-%m-%d %H:%M:%S %Z").strip() *)
Strftime(ticks) == ToString(ticks \div TicksPerSecond)

----------------------------------------------------------------------------
(* Storage: the tables the addon reads and writes *)

NoProject == 0
NoWriter == <<0, 0>>

(* structures joined with files: the storage collaborator's table *)
Structures == {
    [id |-> 1, name |-> "Foo", project_id |-> 1],
    [id |-> 2, name |-> "Foo", project_id |-> 2] }

(* SELECT s.id ... WHERE s.name = ? AND f.project_id = ? *)
FindStructures(entity, project_id) ==
    {s.id : s \in {x \in Structures : x.name = entity /\ x.project_id = project_id}}

(* the rows of extractions JOIN conversations ON e.conversation_id = c.id *)
Joined == {i \in 1..Len(extractions) :
              extractions[i].conversation_id \in 1..Len(conversations)}

ConvOf(i) == conversations[extractions[i].conversation_id]

SqlEq_NullEqual(a, b) == a = b

(* "c.project_id = ?": SQL equality, never true of NULL *)
SqlEq(a, b) == a # NoProject /\ b # NoProject /\ a = b

(* the WHERE clause of _is_duplicate_extraction *)
InWindow(timestamp, window_seconds) ==
    SqlDatetime(timestamp) > SqlNowMinus(window_seconds)

DuplicateRows(content, project_id, window_seconds) ==
    {i \in Joined : /\ extractions[i].content = content
                    /\ SqlEq(ConvOf(i).project_id, project_id)
                    /\ InWindow(ConvOf(i).timestamp, window_seconds)}

is_duplicate_extraction_FailClosed(content, project_id, window_seconds, failed) ==
    failed \/ Cardinality(DuplicateRows(content, project_id, window_seconds)) > 0

(* _is_duplicate_extraction; failed is the query raising (caught: False) *)
is_duplicate_extraction(content, project_id, window_seconds, failed) ==
    IF failed THEN FALSE
    ELSE Cardinality(DuplicateRows(content, project_id, window_seconds)) > 0

----------------------------------------------------------------------------
(* Context Synthesizer: get_relevant_context *)

IsDecisionOrRejection(i) == extractions[i].type \in {"decision", "rejection"}

ByTimestampDesc_ById(i, j) == i >= j

(* ORDER BY c.timestamp DESC (rows of one conversation in row order) *)
ByTimestampDesc(i, j) ==
    \/ ConvOf(i).timestamp > ConvOf(j).timestamp
    \/ ConvOf(i).timestamp = ConvOf(j).timestamp /\ i <= j

(* ORDER BY id DESC *)
ByIdDesc(i, j) == i >= j

RECURSIVE TopByTimestamp(_, _)
TopByTimestamp(S, n) ==
    IF n = 0 \/ S = {} THEN <<>>
    ELSE LET best == CHOOSE i \in S : \A j \in S : ByTimestampDesc(i, j)
         IN <<best>> \o TopByTimestamp(S \ {best}, n - 1)

RECURSIVE TopById(_, _)
TopById(S, n) ==
    IF n = 0 \/ S = {} THEN <<>>
    ELSE LET best == CHOOSE i \in S : \A j \in S : ByIdDesc(i, j)
         IN <<best>> \o TopById(S \ {best}, n - 1)

ContextRows ==
    IF current_project_id # NoProject
    THEN TopByTimestamp({i \in Joined : /\ ConvOf(i).project_id = current_project_id
                                        /\ IsDecisionOrRejection(i)},
                        ContextLimit)
    ELSE TopById({i \in 1..Len(extractions) : IsDecisionOrRejection(i)},
                 FallbackLimit)

RECURSIVE ContentsOfType(_, _)
ContentsOfType(rows, type) ==
    IF rows = <<>> THEN <<>>
    ELSE (IF extractions[Head(rows)].type = type
          THEN <<extractions[Head(rows)].content>> ELSE <<>>)
         \o ContentsOfType(Tail(rows), type)

FirstN(s, n) == SubSeq(s, 1, IF Len(s) < n THEN Len(s) ELSE n)

(* the text returned when the queries succeed *)
RenderContext(results) ==
    LET decisions == ContentsOfType(results, "decision")
        rejections == ContentsOfType(results, "rejection")
        head == <<"## Context (from aimem)", "**Current time:**", Strftime(LocalNow)>>
    IN  IF results # <<>>
        THEN head \o <<"_Use aimem_decisions_">>
             \o (IF decisions # <<>>
                 THEN <<"### Recent Decisions">> \o FirstN(decisions, MaxDecisionBullets)
                 ELSE <<>>)
             \o (IF rejections # <<>>
                 THEN <<"### Approaches Rejected">> \o FirstN(rejections, MaxRejectionBullets)
                 ELSE <<>>)
        ELSE head \o <<"_Use aimem_decisions and aimem_verify_">>

(* failed: connect or execute raised; the error is logged and "" returned *)
get_relevant_context(failed) ==
    IF failed THEN <<>> ELSE RenderContext(ContextRows)

----------------------------------------------------------------------------
(* The exchanges and the callback invocations *)

Flows == 1..MaxFlows

(* <<f, k>>: the k-th invocation of response() for flow f; the flows up to *)
(* MaxRepeated can have a second one                                        *)
Responders == {t \in Flows \X (1..2) : t[2] = 1 \/ t[1] <= MaxRepeated}
FirstResponders == {t \in Responders : t[2] = 1}

MissingBody == Body("missing", Absent, Absent, Absent, Absent)

(* request_info.get("request_data", {}) *)
RequestDataOf(info) ==
    IF info.request_data.kind = "missing"
    THEN ObjectBody(Absent, Absent, Absent, Absent)
    ELSE info.request_data

NoInfo == [host |-> <<>>, timestamp |-> 0, request_data |-> MissingBody]
NoConv == [project_id |-> NoProject, model |-> "", tool |-> "", summary |-> "",
           raw_content |-> [request |-> MissingBody, timestamp |-> 0],
           timestamp |-> 0]

(* request()'s locals: host and body are flow.request.host and the content *)
(* it was called with, out is flow.request.content, context the text       *)
(* get_relevant_context returned; result is "ignored" (not a target host), *)
(* "ok", or "error" (an exception logged by request())                     *)
NewFlow == [pc |-> "new", host |-> <<>>, body |-> EmptyBody, out |-> EmptyBody,
            context |-> <<>>, result |-> ""]

IdleResp == [pc |-> "idle", result |-> "", info |-> NoInfo, content |-> "",
             cands |-> <<>>, i |-> 1, uniq |-> <<>>, conv |-> NoConv,
             exts |-> <<>>, lnks |-> {}]

(* no function is being called on its own *)
NoCall == [fn |-> "", arg |-> <<>>, ret |-> <<>>, pc |-> "idle"]

(* a callback that has returned keeps only how it ended: "noop" (id not  *)
(* pending), "keyerror" (pop raised, logged by response()), "nothing" (no   *)
(* content to extract), "error" (another exception logged by response()),   *)
(* "skipped" (all duplicates), "stored", "failed" (an exception logged by   *)
(* store_conversation)                                                      *)
Done(result) == [IdleResp EXCEPT !.pc = "done", !.result = result]

----------------------------------------------------------------------------
(* Inputs *)

HostAnthropic == <<"api.", "anthropic", ".com">>
HostOpenAI == <<"api.", "openai", ".com">>
HostGemini == <<"generativelanguage.googleapis", ".com">>
HostCohere == <<"api.", "cohere", ".ai">>
HostOther == <<"example", ".com">>

OldText == <<"old">>
UserMsg == Msg("user", Text(<<"hi">>))

(* the candidates extract_decisions returns for the response texts used *)
CandA == [type |-> "decision", content |-> "a", entities |-> {"Foo"}]
CandB == [type |-> "rejection", content |-> "b", entities |-> {}]

(* A response, by what response() finds in it:                            *)
(*   "empty"     no response or an empty body                              *)
(*   "badjson"   not a stream, and json.loads raises JSONDecodeError       *)
(*   "raises"    not a stream, and _get_assistant_content raises           *)
(*   "nocontent" the extracted assistant content is ""                     *)
(*   "content"   assistant content with the candidates extract_decisions   *)
(*               finds in it                                               *)
Response(kind, content, cands) == [kind |-> kind, content |-> content, cands |-> cands]

ResponseInputs == {
    Response("empty", "", <<>>),
    Response("badjson", "", <<>>),
    Response("raises", "", <<>>),
    Response("nocontent", "", <<>>),
    Response("content", "t0", <<>>),
    Response("content", "ta", <<CandA>>),
    Response("content", "tab", <<CandA, CandB>>) }

RequestInputs == {
    <<HostOther, ObjectBody(List(<<UserMsg>>), Absent, Absent, Absent)>>,
    <<HostAnthropic, EmptyBody>>,
    <<HostAnthropic, BadJsonBody>>,
    <<HostAnthropic, NonObjectBody>>,
    <<HostAnthropic, ObjectBody(List(<<UserMsg>>), Absent, Absent, Absent)>> }

TzOffsets == {-18000, 0, 3600}
ProjectIds == {NoProject, 1}

WindowTicks == WindowSeconds * TicksPerSecond

(* the instants the clock is observed at: around the multiples of the window *)
ClockPoints == {t \in 0..MaxClock : t % WindowTicks \in {0, 1, WindowTicks - 1}}
WindowPoints == {t \in 0..MaxClock : t % WindowTicks = 0}

StoreRequestInputs == {
    <<HostAnthropic, ObjectBody(List(<<UserMsg>>), Absent, Absent, Absent)>> }

----------------------------------------------------------------------------
(* Initial state: the addon constructed, no exchange in flight *)

Init ==
    /\ pending_requests = <<>>
    /\ conversations = <<>>
    /\ extractions = <<>>
    /\ links = {}
    /\ writer = NoWriter
    /\ clock = 0
    /\ tz \in TzOffsets
    /\ current_project_id \in ProjectIds
    /\ flows = [f \in Flows |-> NewFlow]
    /\ resp = [t \in Responders |-> IdleResp]
    /\ call = NoCall

db == <<conversations, extractions, links, writer>>
env == <<clock, tz, current_project_id, call>>

----------------------------------------------------------------------------
(* request(): lines 469-538 *)

Insert_Replace(f, entry) == [g \in {f} |-> entry]

(* self.pending_requests[flow.id] = {...} *)
Insert(f, entry) ==
    [g \in DOMAIN pending_requests \cup {f} |->
        IF g = f THEN entry ELSE pending_requests[g]]

(* lines 471-479: the host test and the insert into pending_requests.     *)
(* Flow ids are numbered in the order the requests arrive.                 *)
RequestCapture(f, inputs) ==
    /\ flows[f].pc = "new"
    /\ f > 1 => flows[f - 1].pc # "new"
    /\ \E inp \in inputs :
         LET host == inp[1]
             body == inp[2]
         IN  IF ~is_target_host(host)
             THEN /\ flows' = [flows EXCEPT ![f] =
                        [NewFlow EXCEPT !.pc = "done", !.host = host, !.body = body,
                                        !.out = body, !.result = "ignored"]]
                  /\ UNCHANGED pending_requests
             ELSE /\ flows' = [flows EXCEPT ![f] =
                        [NewFlow EXCEPT !.pc = "captured", !.host = host,
                                        !.body = body, !.out = body]]
                  /\ pending_requests' =
                        Insert(f, [host |-> host, timestamp |-> LocalNow,
                                   request_data |-> MissingBody])
    /\ UNCHANGED <<db, env, resp>>

(* the outgoing body: json.dumps(data) when something was injected *)
Outgoing(body, st) == IF st.injected /\ ~st.raised THEN st.data ELSE body

(* self.pending_requests[flow.id]["request_data"] = data *)
AttachRequestData(f, data) ==
    [pending_requests EXCEPT ![f].request_data = data]

(* lines 481-538: parse, attach to the entry, synthesize and inject.       *)
(* data is the object the entry holds, so what Inject changes in it        *)
(* before raising stays in the entry.                                      *)
RequestInject(f) ==
    /\ flows[f].pc = "captured"
    /\ LET body == flows[f].body
           host == flows[f].host
       IN  IF body.kind = "empty"
           THEN /\ flows' = [flows EXCEPT ![f].pc = "done", ![f].result = "ok"]
                /\ UNCHANGED pending_requests
           ELSE IF body.kind = "badjson" \/ f \notin DOMAIN pending_requests
           THEN /\ flows' = [flows EXCEPT ![f].pc = "done", ![f].result = "error"]
                /\ UNCHANGED pending_requests
           ELSE IF body.kind = "nonobject"
           THEN /\ pending_requests' = AttachRequestData(f, body)
                /\ flows' = [flows EXCEPT ![f].pc = "done", ![f].result = "error"]
           ELSE \E failed \in BOOLEAN :
                  LET context == get_relevant_context(failed)
                      st == Inject(Lower(host), body, context)
                  IN  /\ pending_requests' = AttachRequestData(f, st.data)
                      /\ flows' = [flows EXCEPT
                            ![f].pc = "done",
                            ![f].context = context,
                            ![f].out = Outgoing(body, st),
                            ![f].result = IF st.raised THEN "error" ELSE "ok"]
    /\ UNCHANGED <<db, env, resp>>

----------------------------------------------------------------------------
(* response(): lines 540-591 *)

(* the host engine calls response() after request() has returned, and the *)
(* k-th invocation for a flow is not started before the (k-1)-th           *)
MayRespond(t) ==
    /\ resp[t].pc = "idle"
    /\ flows[t[1]].pc = "done"
    /\ t[2] > 1 => resp[<<t[1], t[2] - 1>>].pc # "idle"

IsPending_Always(f) == TRUE

(* line 542: if flow.id not in self.pending_requests: return *)
IsPending(f) == f \in DOMAIN pending_requests

ResponseCheck(t) ==
    /\ MayRespond(t)
    /\ resp' = [resp EXCEPT ![t] =
                  IF IsPending(t[1]) THEN [IdleResp EXCEPT !.pc = "pop"]
                  ELSE Done("noop")]
    /\ UNCHANGED <<pending_requests, db, env, flows>>

Pop_Get(f) == pending_requests

(* self.pending_requests.pop(flow.id): the map without the entry *)
Pop(f) == [g \in DOMAIN pending_requests \ {f} |-> pending_requests[g]]

(* get_model_from_request: data.get("model", "unknown") *)
get_model_from_request(data) == "unknown"

(* lines 548-583: what response() does with the popped entry and the body, *)
(* up to the call of store_conversation                                     *)
AfterPop(info, r) ==
    IF r.kind = "empty" THEN Done("nothing")
    ELSE IF r.kind = "badjson" THEN Done("nothing")
    ELSE IF r.kind = "raises" THEN Done("error")
    ELSE IF r.kind = "nocontent" THEN Done("nothing")
    ELSE IF RequestDataOf(info).kind # "object" THEN Done("error")
    ELSE [IdleResp EXCEPT !.pc = IF r.cands = <<>> THEN "decide" ELSE "dedup",
                          !.info = info, !.content = r.content, !.cands = r.cands]

(* line 546 and the processing that touches nothing shared *)
ResponsePop(t, inputs) ==
    /\ resp[t].pc = "pop"
    /\ IF t[1] \notin DOMAIN pending_requests
       THEN /\ resp' = [resp EXCEPT ![t] = Done("keyerror")]
            /\ UNCHANGED pending_requests
       ELSE /\ pending_requests' = Pop(t[1])
            /\ \E r \in inputs :
                 resp' = [resp EXCEPT ![t] = AfterPop(pending_requests[t[1]], r)]
    /\ UNCHANGED <<db, env, flows>>

----------------------------------------------------------------------------
(* store_conversation(): lines 246-304.  Each connection sees the committed *)
(* rows; its own INSERTs stay in its transaction (conv, exts, lnks) until   *)
(* conn.commit(), and are rolled back when the call ends without it.        *)
(* failed is a storage step raising.                                        *)

(* lines 254-258: one pass of the filter loop *)
StoreDedup(t) ==
    /\ resp[t].pc = "dedup"
    /\ \E failed \in BOOLEAN :
         LET me == resp[t]
             ext == me.cands[me.i]
             dup == is_duplicate_extraction(ext.content, current_project_id,
                                            WindowSeconds, failed)
         IN  resp' = [resp EXCEPT
                 ![t].uniq = IF dup THEN me.uniq ELSE Append(me.uniq, ext),
                 ![t].i = me.i + 1,
                 ![t].pc = IF me.i = Len(me.cands) THEN "decide" ELSE "dedup"]
    /\ UNCHANGED <<pending_requests, db, env, flows>>

ShouldStore_Always(cands, uniq) == TRUE

(* line 261: if not extractions or unique_extractions *)
ShouldStore(cands, uniq) == cands = <<>> \/ uniq # <<>>

ConversationRow(me) ==
    [project_id |-> current_project_id,
     model |-> get_model_from_request(RequestDataOf(me.info)),
     tool |-> get_tool_from_host(me.info.host),
     summary |-> me.content,
     raw_content |-> [request |-> RequestDataOf(me.info),
                      timestamp |-> me.info.timestamp],
     timestamp |-> LocalNow]

(* lines 261-273: write the conversation row, or skip the call *)
StoreDecide(t) ==
    /\ resp[t].pc = "decide"
    /\ LET me == resp[t] IN
       IF ShouldStore(me.cands, me.uniq)
       THEN \/ /\ writer = NoWriter
               /\ writer' = t
               /\ resp' = [resp EXCEPT
                     ![t].conv = ConversationRow(me),
                     ![t].i = 1,
                     ![t].pc = IF me.uniq = <<>> THEN "commit" ELSE "insert"]
            \/ /\ resp' = [resp EXCEPT ![t] = Done("failed")]
               /\ UNCHANGED writer
       ELSE /\ resp' = [resp EXCEPT ![t] = Done("skipped")]
            /\ UNCHANGED writer
    /\ UNCHANGED <<pending_requests, conversations, extractions, links, env, flows>>

LinkType_Decision(ext) == "decision"

(* line 294 *)
LinkType(ext) == IF ext.type = "decision" THEN "decision" ELSE "rejected"

(* lines 285-298: the links of one extraction row *)
LinksFor(ext, extraction_id) ==
    IF current_project_id # NoProject /\ ext.entities # {}
    THEN {[source_id |-> extraction_id, target_id |-> sid, link_type |-> LinkType(ext)] :
             sid \in UNION {FindStructures(e, current_project_id) : e \in ext.entities}}
    ELSE {}

(* lines 276-298: one pass of the insert loop *)
StoreInsert(t) ==
    /\ resp[t].pc = "insert"
    /\ LET me == resp[t]
           ext == me.uniq[me.i]
           conversation_id == Len(conversations) + 1
           extraction_id == Len(extractions) + Len(me.exts) + 1
       IN  \/ /\ resp' = [resp EXCEPT
                    ![t].exts = Append(me.exts,
                        [conversation_id |-> conversation_id, type |-> ext.type,
                         content |-> ext.content, entities |-> ext.entities]),
                    ![t].lnks = me.lnks \cup LinksFor(ext, extraction_id),
                    ![t].i = me.i + 1,
                    ![t].pc = IF me.i = Len(me.uniq) THEN "commit" ELSE "insert"]
              /\ UNCHANGED writer
           \/ /\ resp' = [resp EXCEPT ![t] = Done("failed")]
              /\ writer' = NoWriter
    /\ UNCHANGED <<pending_requests, conversations, extractions, links, env, flows>>

Flush_First(table, rows) == table \o FirstN(rows, 1)

(* conn.commit(): the rows inserted in the transaction join the table *)
Flush(table, rows) == table \o rows

(* lines 300-304: conn.commit() *)
StoreCommit(t) ==
    /\ resp[t].pc = "commit"
    /\ \/ /\ conversations' = Append(conversations, resp[t].conv)
          /\ extractions' = Flush(extractions, resp[t].exts)
          /\ links' = links \cup resp[t].lnks
          /\ resp' = [resp EXCEPT ![t] = Done("stored")]
       \/ /\ resp' = [resp EXCEPT ![t] = Done("failed")]
          /\ UNCHANGED <<conversations, extractions, links>>
    /\ writer' = NoWriter
    /\ UNCHANGED <<pending_requests, env, flows>>

----------------------------------------------------------------------------
(* Time passes *)

Tick(points) ==
    /\ \E c \in points : c > clock /\ clock' = c
    /\ UNCHANGED <<pending_requests, db, tz, current_project_id, flows, resp, call>>

----------------------------------------------------------------------------
(* The proxy: exchanges in flight together, their callbacks interleaved,   *)
(* a response callback possibly repeated; the clock is observed at the     *)
(* multiples of the window.                                                 *)

Next ==
    \/ \E f \in Flows : RequestCapture(f, RequestInputs)
    \/ \E f \in Flows : RequestInject(f)
    \/ \E t \in Responders : ResponseCheck(t)
    \/ \E t \in Responders : ResponsePop(t, ResponseInputs)
    \/ \E t \in Responders : StoreDedup(t)
    \/ \E t \in Responders : StoreDecide(t)
    \/ \E t \in Responders : StoreInsert(t)
    \/ \E t \in Responders : StoreCommit(t)
    \/ Tick(WindowPoints)

Spec == Init /\ [][Next]_vars

(* The persistence path under the clock: well-formed requests, one         *)
(* response per exchange, the clock observed around the window's edges.    *)

NextStore ==
    \/ \E f \in Flows : RequestCapture(f, StoreRequestInputs)
    \/ \E f \in Flows : RequestInject(f)
    \/ \E t \in FirstResponders : ResponseCheck(t)
    \/ \E t \in FirstResponders : ResponsePop(t, ResponseInputs)
    \/ \E t \in FirstResponders : StoreDedup(t)
    \/ \E t \in FirstResponders : StoreDecide(t)
    \/ \E t \in FirstResponders : StoreInsert(t)
    \/ \E t \in FirstResponders : StoreCommit(t)
    \/ Tick(ClockPoints)

SpecStore == Init /\ [][NextStore]_vars

(* One request callback, over the hosts and the body shapes the injector   *)
(* distinguishes, with or without persisted history.                       *)

HostUpper == <<"API.", "ANTHROPIC", ".COM">>
HostMixed == <<"ANTHROPIC", ".", "api.", "openai", ".com">>
HostTwo == <<"api.", "anthropic", ".com", ".", "api.", "cohere", ".ai">>

InjectHosts == {HostAnthropic, HostOpenAI, HostGemini, HostCohere, HostOther,
                HostUpper, HostMixed, HostTwo}

MessagesShapes == {
    Absent, Other, List(<<>>), List(<<UserMsg>>),
    List(<<Msg("system", Text(OldText)), UserMsg>>),
    List(<<Msg("system", Absent)>>),
    List(<<Msg("system", Other), UserMsg>>),
    List(<<Msg("nondict", Absent)>>) }

TextShapes == {Absent, Text(OldText), Other}

InstructionShapes == {
    Absent, Parts(<<OldText>>),
    [t |-> "noparts", v |-> <<>>], [t |-> "badparts", v |-> <<>>] }

InjectBodies ==
    {EmptyBody, BadJsonBody, NonObjectBody}
    \cup {ObjectBody(m, sy, si, pr) :
            m \in MessagesShapes, sy \in TextShapes,
            si \in InstructionShapes, pr \in TextShapes}

InjectRequestInputs == InjectHosts \X InjectBodies

(* rows left by earlier runs: one conversation of project 1 with a         *)
(* decision and a rejection                                                 *)
OldConversations == <<[NoConv EXCEPT !.project_id = 1, !.tool = "claude"]>>
OldExtractions ==
    <<[conversation_id |-> 1, type |-> CandA.type, content |-> CandA.content,
       entities |-> CandA.entities],
      [conversation_id |-> 1, type |-> CandB.type, content |-> CandB.content,
       entities |-> CandB.entities]>>

OldLinks == {[source_id |-> 1, target_id |-> 1, link_type |-> LinkType(OldExtractions[1])]}

InitRequest ==
    /\ pending_requests = <<>>
    /\ \/ conversations = <<>> /\ extractions = <<>> /\ links = {}
       \/ conversations = OldConversations /\ extractions = OldExtractions
          /\ links = OldLinks
    /\ writer = NoWriter
    /\ clock = 0
    /\ tz \in TzOffsets
    /\ current_project_id \in ProjectIds
    /\ flows = [f \in Flows |-> NewFlow]
    /\ resp = [t \in Responders |-> IdleResp]
    /\ call = NoCall

NextRequest ==
    \/ RequestCapture(1, InjectRequestInputs)
    \/ RequestInject(1)

SpecRequest == InitRequest /\ [][NextRequest]_vars

(* a rejection that names a structure of the project and a name that is   *)
(* no structure, after a candidate the history already holds               *)
CandC == [type |-> "rejection", content |-> "c", entities |-> {"Foo", "Bar"}]

LinkResponseInputs ==
    ResponseInputs \cup {Response("content", "tac", <<CandA, CandC>>)}

(* One exchange alone, with or without persisted history: what its        *)
(* callbacks do when no other exchange is in flight and no time passes.    *)

One == <<1, 1>>

NextOne ==
    \/ RequestCapture(1, StoreRequestInputs)
    \/ RequestInject(1)
    \/ ResponseCheck(One)
    \/ ResponsePop(One, LinkResponseInputs)
    \/ StoreDedup(One)
    \/ StoreDecide(One)
    \/ StoreInsert(One)
    \/ StoreCommit(One)

SpecOne == InitRequest /\ [][NextOne]_vars

----------------------------------------------------------------------------
(* The functions on their own: one call of a function on an argument drawn *)
(* from a bounded set, with the addon otherwise at rest.                    *)

AtRest ==
    /\ pending_requests = <<>>
    /\ conversations = <<>>
    /\ extractions = <<>>
    /\ links = {}
    /\ writer = NoWriter
    /\ clock = 0
    /\ tz = 0
    /\ current_project_id = NoProject
    /\ flows = [f \in Flows |-> NewFlow]
    /\ resp = [t \in Responders |-> IdleResp]

Called(fn, arg) == [fn |-> fn, arg |-> arg, ret |-> <<>>, pc |-> "called"]

(* the call returns ret *)
Return(fn, ret) ==
    /\ call.pc = "called" /\ call.fn = fn
    /\ call' = [call EXCEPT !.ret = ret, !.pc = "returned"]
    /\ UNCHANGED <<pending_requests, db, clock, tz, current_project_id, flows, resp>>

Returned(fn) == call.pc = "returned" /\ call.fn = fn

(* One exchange alone whose response is fixed from the start (call.arg),   *)
(* over the request bodies a recognized host can send, with or without     *)
(* persisted history.                                                      *)

ExchangeRequestInputs == {inp \in RequestInputs : is_target_host(inp[1])}

InitExchange ==
    /\ pending_requests = <<>>
    /\ \/ conversations = <<>> /\ extractions = <<>> /\ links = {}
       \/ conversations = OldConversations /\ extractions = OldExtractions
          /\ links = OldLinks
    /\ writer = NoWriter
    /\ clock = 0
    /\ tz \in TzOffsets
    /\ current_project_id \in ProjectIds
    /\ flows = [f \in Flows |-> NewFlow]
    /\ resp = [t \in Responders |-> IdleResp]
    /\ call \in {Called("exchange", r) : r \in LinkResponseInputs}

NextExchange ==
    \/ RequestCapture(1, ExchangeRequestInputs)
    \/ RequestInject(1)
    \/ ResponseCheck(One)
    \/ ResponsePop(One, {call.arg})
    \/ StoreDedup(One)
    \/ StoreDecide(One)
    \/ StoreInsert(One)
    \/ StoreCommit(One)

SpecExchange == InitExchange /\ [][NextExchange]_vars

(* Host strings: up to MaxHostFragments fragments *)

MaxHostFragments == 3

HostFragments == {
    "api.", "API.", "anthropic", "ANTHROPIC", "openai",
    "generativelanguage.googleapis", "mistral", "cohere", "groq", "together",
    "perplexity", "fireworks", "replicate", "deepseek", "localhost",
    "127.0.0.1", ":", "11434", "1234", "ollama", ".com", ".ai", ".xyz", "example" }

HostStrings == UNION {[1..n -> HostFragments] : n \in 0..MaxHostFragments}

(* is_target_host(host) and get_tool_from_host(host) of one host *)
Identify ==
    Return("identify", [tool |-> get_tool_from_host(call.arg),
                        target |-> is_target_host(call.arg)])

InitHosts == AtRest /\ call \in {Called("identify", h) : h \in HostStrings}

SpecHosts == InitHosts /\ [][Identify]_vars

----------------------------------------------------------------------------
(* Response bodies.  A parsed JSON value is [t |-> shape, v |-> content]:  *)
(* "dict" with v the function from its keys to their values, "list",       *)
(* "text" (a string, v its pieces), "null", and "other" (a number or true: *)
(* a value that is neither a string nor a container, and is truthy).        *)

Null == [t |-> "null", v |-> <<>>]
Dict(fields) == [t |-> "dict", v |-> fields]
EmptyDict == Dict(<<>>)
Str(x) == Text(<<x>>)
NL == "\n"

HasKey(d, k) == k \in DOMAIN d.v

(* d.get(k) and d.get(k, default) of a dict d *)
Get(d, k) == IF HasKey(d, k) THEN d.v[k] ELSE Null
GetOr(d, k, default) == IF HasKey(d, k) THEN d.v[k] ELSE default

(* x == "s" *)
IsStr(x, s) == x.t = "text" /\ x.v = <<s>>

(* bool(x) *)
Truthy(x) ==
    CASE x.t = "text" -> x.v # <<>>
      [] x.t = "list" -> x.v # <<>>
      [] x.t = "dict" -> DOMAIN x.v # {}
      [] x.t = "other" -> TRUE
      [] OTHER -> FALSE

(* for e in x: a list gives its elements, a string its characters, a dict  *)
(* its keys (strings); anything else is not iterable                        *)
Iterable(x) == x.t \in {"list", "text", "dict"}
Elements(x) ==
    CASE x.t = "list" -> x.v
      [] x.t = "text" -> [i \in 1..Len(x.v) |-> Str(x.v[i])]
      [] x.t = "dict" -> IF DOMAIN x.v = {} THEN <<>> ELSE <<Str("key")>>
      [] OTHER -> <<>>

(* the text built so far, and whether an exception has been raised *)
Started == [content |-> <<>>, raised |-> FALSE]
Fail(st) == [st EXCEPT !.raised = TRUE]

(* content += x + sep: TypeError unless x is a string *)
AppendText(st, x, sep) ==
    IF x.t = "text" THEN [st EXCEPT !.content = @ \o x.v \o sep] ELSE Fail(st)

(* lines 403-405 and 447-449: for part in candidate_content.get("parts", []) *)
ContentOfPart(st, part, sep) ==
    IF st.raised THEN st
    ELSE IF part.t # "dict" THEN Fail(st)
    ELSE IF Truthy(Get(part, "text"))
         THEN AppendText(st, GetOr(part, "text", Text(<<>>)), sep)
         ELSE st

RECURSIVE ContentOfParts(_, _, _)
ContentOfParts(st, parts, sep) ==
    IF parts = <<>> \/ st.raised THEN st
    ELSE ContentOfParts(ContentOfPart(st, Head(parts), sep), Tail(parts), sep)

(* lines 401-405 and 445-449: one candidate *)
ContentOfCandidate(st, candidate, sep) ==
    IF st.raised THEN st
    ELSE IF candidate.t # "dict" THEN Fail(st)
    ELSE LET candidate_content == GetOr(candidate, "content", EmptyDict) IN
         IF candidate_content.t # "dict" THEN Fail(st)
         ELSE LET parts == GetOr(candidate_content, "parts", List(<<>>)) IN
              IF ~Iterable(parts) THEN Fail(st)
              ELSE ContentOfParts(st, Elements(parts), sep)

RECURSIVE ContentOfCandidateList(_, _, _)
ContentOfCandidateList(st, candidates, sep) ==
    IF candidates = <<>> \/ st.raised THEN st
    ELSE ContentOfCandidateList(ContentOfCandidate(st, Head(candidates), sep),
                                Tail(candidates), sep)

(* lines 400-405 and 444-449: if "candidates" in data *)
ContentOfCandidates(st, data, sep) ==
    IF st.raised \/ ~HasKey(data, "candidates") THEN st
    ELSE IF ~Iterable(Get(data, "candidates")) THEN Fail(st)
    ELSE ContentOfCandidateList(st, Elements(Get(data, "candidates")), sep)

(* d.get(key, {}).get("content") appended when truthy: lines 395-397,      *)
(* 435-437 and 439-441                                                      *)
ContentUnder(st, d, key, sep) ==
    IF st.raised THEN st
    ELSE LET inner == GetOr(d, key, EmptyDict) IN
         IF inner.t # "dict" THEN Fail(st)
         ELSE IF Truthy(Get(inner, "content"))
              THEN AppendText(st, GetOr(inner, "content", Text(<<>>)), sep)
              ELSE st

(* _parse_sse_content: lines 361-413.  A line of the stream, after split   *)
(* and strip, is "nodata" (does not start with data:), "done" (data:       *)
(* [DONE]), "badjson" (json.loads raises JSONDecodeError) or "json" with   *)
(* data the parsed payload.                                                 *)

NoDataLine == [kind |-> "nodata", data |-> Null]
DoneLine == [kind |-> "done", data |-> Null]
BadJsonLine == [kind |-> "badjson", data |-> Null]
DataLine(data) == [kind |-> "json", data |-> data]

(* lines 382-385 *)
SseContentBlockDelta(st, data) ==
    IF st.raised \/ ~IsStr(Get(data, "type"), "content_block_delta") THEN st
    ELSE LET delta == GetOr(data, "delta", EmptyDict) IN
         IF delta.t # "dict" THEN Fail(st)
         ELSE IF IsStr(Get(delta, "type"), "text_delta")
              THEN AppendText(st, GetOr(delta, "text", Text(<<>>)), <<>>)
              ELSE st

(* lines 394-397: one choice *)
SseChoice(st, choice) ==
    IF st.raised THEN st
    ELSE IF choice.t # "dict" THEN Fail(st)
    ELSE ContentUnder(st, choice, "delta", <<>>)

RECURSIVE SseChoiceList(_, _)
SseChoiceList(st, choices) ==
    IF choices = <<>> \/ st.raised THEN st
    ELSE SseChoiceList(SseChoice(st, Head(choices)), Tail(choices))

(* lines 393-397 *)
SseChoices(st, data) ==
    IF st.raised \/ ~HasKey(data, "choices") THEN st
    ELSE IF ~Iterable(Get(data, "choices")) THEN Fail(st)
    ELSE SseChoiceList(st, Elements(Get(data, "choices")))

(* lines 377-405: the payload of one data line; data.get raises on a       *)
(* payload that is no object                                                *)
SseEvent(st, data) ==
    IF data.t # "dict" THEN Fail(st)
    ELSE ContentOfCandidates(SseChoices(SseContentBlockDelta(st, data), data),
                             data, <<>>)

(* lines 367-408: the loop; an exception other than JSONDecodeError leaves *)
(* it (line 410)                                                            *)
RECURSIVE SseLines(_, _)
SseLines(st, lines) ==
    IF lines = <<>> \/ st.raised THEN st
    ELSE SseLines(IF Head(lines).kind = "json" THEN SseEvent(st, Head(lines).data)
                  ELSE st,
                  Tail(lines))

(* returns content; warned is the exception caught and logged at line 411 *)
parse_sse_content(lines) ==
    LET st == SseLines(Started, lines)
    IN  [content |-> st.content, raised |-> FALSE, warned |-> st.raised]

(* _get_assistant_content: lines 420-467 *)

(* lines 425-430: one block of "content" *)
ContentOfBlock(st, block) ==
    IF st.raised THEN st
    ELSE IF block.t = "dict" /\ IsStr(Get(block, "type"), "text")
         THEN AppendText(st, GetOr(block, "text", Text(<<>>)), <<NL>>)
    ELSE IF block.t = "text" THEN AppendText(st, block, <<NL>>)
    ELSE st

RECURSIVE ContentOfBlockList(_, _)
ContentOfBlockList(st, blocks) ==
    IF blocks = <<>> \/ st.raised THEN st
    ELSE ContentOfBlockList(ContentOfBlock(st, Head(blocks)), Tail(blocks))

ContentOfBlocks(st, data) ==
    IF st.raised \/ ~HasKey(data, "content") \/ Get(data, "content").t # "list" THEN st
    ELSE ContentOfBlockList(st, Get(data, "content").v)

(* lines 434-441: one choice, its message and then its delta *)
ContentOfChoice(st, choice) ==
    IF st.raised THEN st
    ELSE IF choice.t # "dict" THEN Fail(st)
    ELSE ContentUnder(ContentUnder(st, choice, "message", <<NL>>), choice, "delta", <<NL>>)

RECURSIVE ContentOfChoiceList(_, _)
ContentOfChoiceList(st, choices) ==
    IF choices = <<>> \/ st.raised THEN st
    ELSE ContentOfChoiceList(ContentOfChoice(st, Head(choices)), Tail(choices))

ContentOfChoices(st, data) ==
    IF st.raised \/ ~HasKey(data, "choices") THEN st
    ELSE IF ~Iterable(Get(data, "choices")) THEN Fail(st)
    ELSE ContentOfChoiceList(st, Elements(Get(data, "choices")))

(* lines 452-453 *)
ContentOfText(st, data) ==
    IF st.raised \/ ~HasKey(data, "text") \/ Get(data, "text").t # "text" THEN st
    ELSE AppendText(st, Get(data, "text"), <<NL>>)

(* lines 455-457: one generation *)
ContentOfGeneration(st, gen) ==
    IF st.raised THEN st
    ELSE IF gen.t # "dict" THEN Fail(st)
    ELSE IF Truthy(Get(gen, "text"))
         THEN AppendText(st, GetOr(gen, "text", Text(<<>>)), <<NL>>)
         ELSE st

RECURSIVE ContentOfGenerationList(_, _)
ContentOfGenerationList(st, gens) ==
    IF gens = <<>> \/ st.raised THEN st
    ELSE ContentOfGenerationList(ContentOfGeneration(st, Head(gens)), Tail(gens))

ContentOfGenerations(st, data) ==
    IF st.raised \/ ~HasKey(data, "generations") THEN st
    ELSE IF ~Iterable(Get(data, "generations")) THEN Fail(st)
    ELSE ContentOfGenerationList(st, Elements(Get(data, "generations")))

(* str(o) *)
StrOf(o) == IF o.t = "text" THEN o.v ELSE <<"repr">>

RECURSIVE JoinStr(_)
JoinStr(s) == IF s = <<>> THEN <<>> ELSE StrOf(Head(s)) \o JoinStr(Tail(s))

(* lines 460-465 *)
ContentOfOutput(st, data) ==
    IF st.raised \/ ~HasKey(data, "output") THEN st
    ELSE LET output == Get(data, "output") IN
         IF output.t = "text" THEN AppendText(st, output, <<NL>>)
         ELSE IF output.t = "list"
              THEN [st EXCEPT !.content = @ \o JoinStr(output.v) \o <<NL>>]
              ELSE st

(* the keys the function looks for with "in" *)
ResponseKeys == {"content", "choices", "candidates", "text", "generations", "output"}

(* "key" in response_data for a value that is no object: a list is         *)
(* searched for an element equal to the key, a string for the substring,   *)
(* anything else raises TypeError; where the key is found, the .get that   *)
(* follows raises AttributeError                                            *)
ContentOfNonObject(st, response_data) ==
    CASE response_data.t = "list" ->
            IF \E i \in 1..Len(response_data.v) : \E k \in ResponseKeys :
                  IsStr(response_data.v[i], k)
            THEN Fail(st) ELSE st
      [] response_data.t = "text" ->
            IF \E k \in ResponseKeys : Contains(response_data.v, <<k>>)
            THEN Fail(st) ELSE st
      [] OTHER -> Fail(st)

get_assistant_content(response_data) ==
    IF response_data.t # "dict" THEN ContentOfNonObject(Started, response_data)
    ELSE ContentOfOutput(
           ContentOfGenerations(
             ContentOfText(
               ContentOfCandidates(
                 ContentOfChoices(ContentOfBlocks(Started, response_data), response_data),
                 response_data, <<NL>>),
               response_data),
             response_data),
           response_data)

(* Stream payloads and response bodies: the three event shapes, well      *)
(* formed and with a field missing or of another type                       *)

MaxLines == 3

TextDelta(text) ==
    Dict([type |-> Str("content_block_delta"),
          delta |-> Dict([type |-> Str("text_delta"), text |-> text])])
ChoiceWith(key, content) == Dict([choices |-> List(<<Dict(key :> Dict([content |-> content]))>>)])
ChoiceDelta(content) == ChoiceWith("delta", content)
CandidateParts(text) ==
    Dict([candidates |->
            List(<<Dict([content |-> Dict([parts |-> List(<<Dict([text |-> text])>>)])])>>)])

EventShapes == {
    TextDelta(Str("a")), TextDelta(Other), TextDelta(Null),
    Dict([type |-> Str("content_block_delta")]),
    Dict([type |-> Str("content_block_delta"), delta |-> Null]),
    Dict([type |-> Str("message_delta"), delta |-> Dict([stop_reason |-> Str("end_turn")])]),
    Dict([type |-> Str("content_block_delta"),
          delta |-> Dict([type |-> Str("text_delta"), text |-> Str("a")]),
          choices |-> Null]),
    ChoiceDelta(Str("b")), ChoiceDelta(Null), ChoiceDelta(Text(<<>>)), ChoiceDelta(Other),
    Dict([choices |-> Null]), Dict([choices |-> List(<<>>)]),
    Dict([choices |-> List(<<Other>>)]),
    Dict([choices |-> List(<<Dict([delta |-> Null])>>)]),
    Dict([choices |-> List(<<EmptyDict>>)]),
    CandidateParts(Str("c")), CandidateParts(Other),
    Dict([candidates |-> List(<<Dict([content |-> Null])>>)]),
    Dict([candidates |-> Other]),
    Other, Null, Str("x"), List(<<>>), EmptyDict }

StreamLines == {NoDataLine, DoneLine, BadJsonLine} \cup {DataLine(e) : e \in EventShapes}

Streams == UNION {[1..n -> StreamLines] : n \in 0..MaxLines}

ResponseBodies ==
    EventShapes \cup {
    Dict([content |-> List(<<Dict([type |-> Str("text"), text |-> Str("a")])>>)]),
    Dict([content |-> List(<<Dict([type |-> Str("text"), text |-> Null])>>)]),
    Dict([content |-> List(<<Dict([type |-> Str("text")]), Str("s"), Other,
                             Dict([type |-> Str("tool_use")])>>)]),
    Dict([content |-> Str("a")]),
    ChoiceWith("message", Str("m")), ChoiceWith("message", Null),
    ChoiceWith("message", Other), ChoiceWith("message", List(<<Str("m")>>)),
    Dict([choices |-> List(<<Dict([message |-> Null])>>)]),
    Dict([choices |-> List(<<Dict([message |-> Dict([content |-> Str("m")]),
                                   delta |-> Dict([content |-> Str("d")])])>>)]),
    Dict([choices |-> Str("s")]),
    Dict([text |-> Str("t")]), Dict([text |-> Other]),
    Dict([generations |-> List(<<Dict([text |-> Str("g")])>>)]),
    Dict([generations |-> List(<<Dict([text |-> Other])>>)]),
    Dict([generations |-> Null]),
    Dict([output |-> Str("o")]), Dict([output |-> List(<<Str("o"), Other>>)]),
    Dict([output |-> Other]),
    Dict([content |-> List(<<Dict([type |-> Str("text"), text |-> Str("a")])>>),
          choices |-> List(<<Dict([message |-> Dict([content |-> Str("m")])])>>),
          text |-> Str("t")]),
    Dict([content |-> List(<<Dict([type |-> Str("text"), text |-> Str("a")])>>),
          candidates |-> Null]),
    List(<<Str("choices")>>), List(<<Str("x")>>), Str("choices"),
    Text(<<"some ", "content", " here">>) }

ParseSse == Return("parse_sse_content", parse_sse_content(call.arg))

GetAssistantContent == Return("get_assistant_content", get_assistant_content(call.arg))

InitExtract ==
    /\ AtRest
    /\ call \in {Called("parse_sse_content", s) : s \in Streams}
                \cup {Called("get_assistant_content", b) : b \in ResponseBodies}

NextExtract == ParseSse \/ GetAssistantContent

SpecExtract == InitExtract /\ [][NextExtract]_vars

----------------------------------------------------------------------------
(* get_relevant_context on its own, over persisted histories of up to      *)
(* MaxHistory extractions, one per conversation: all decisions, all        *)
(* rejections, alternating, or rejections first; written in timestamp      *)
(* order, against it, at one instant, or interleaved; of the current       *)
(* project, of two projects in turn, or of none.                           *)

MaxHistory == 12

HistoryTypes == {"decisions", "rejections", "alternate", "rejections first"}
HistoryOrders == {"ascending", "descending", "equal", "interleaved"}
HistoryProjects == {"one", "two", "none"}

TypeAt(types, i) ==
    CASE types = "decisions" -> "decision"
      [] types = "rejections" -> "rejection"
      [] types = "alternate" -> IF i % 2 = 1 THEN "decision" ELSE "rejection"
      [] OTHER -> IF i <= MaxRejectionBullets THEN "rejection" ELSE "decision"

(* the rank in time of row i among n rows, 1 the oldest *)
RankAt(order, i, n) ==
    CASE order = "ascending" -> i
      [] order = "descending" -> n + 1 - i
      [] order = "equal" -> 1
      [] OTHER -> (i * 5) % (MaxHistory + 1)

ProjectAt(projects, i) ==
    CASE projects = "one" -> 1
      [] projects = "two" -> IF i % 2 = 1 THEN 1 ELSE 2
      [] OTHER -> NoProject

(* conversations.timestamp of the row of rank r: in the past of now *)
HistoryTimestamp(now, r) == now - (MaxHistory + 1) + r

HistoryConversations(n, order, projects, now) ==
    [i \in 1..n |-> [NoConv EXCEPT !.project_id = ProjectAt(projects, i),
                                   !.tool = "claude",
                                   !.timestamp = HistoryTimestamp(now, RankAt(order, i, n))]]

HistoryExtractions(n, types) ==
    [i \in 1..n |-> [conversation_id |-> i, type |-> TypeAt(types, i),
                     content |-> ToString(i), entities |-> {}]]

InitContext ==
    /\ pending_requests = <<>>
    /\ links = {}
    /\ writer = NoWriter
    /\ clock = 0
    /\ tz \in TzOffsets
    /\ current_project_id \in ProjectIds
    /\ \E n \in 0..MaxHistory, types \in HistoryTypes, order \in HistoryOrders,
          projects \in HistoryProjects :
            /\ conversations = HistoryConversations(n, order, projects, LocalNow)
            /\ extractions = HistoryExtractions(n, types)
    /\ flows = [f \in Flows |-> NewFlow]
    /\ resp = [t \in Responders |-> IdleResp]
    /\ call = Called("get_relevant_context", <<>>)

(* context = self.get_relevant_context(messages); failed: the connection   *)
(* or the query raised                                                      *)
GetRelevantContext ==
    \E failed \in BOOLEAN :
        Return("get_relevant_context",
               [context |-> get_relevant_context(failed), failed |-> failed])

SpecContext == InitContext /\ [][GetRelevantContext]_vars

----------------------------------------------------------------------------
(* extract_decisions: the deduplication of the candidates (lines 184-193). *)
(* A content is the sequence of its characters.  The candidates come in    *)
(* scan order, the decisions before the rejections; their contents are     *)
(* sentences of KeyLength characters or one more, which differ in their    *)
(* first character, in the character at KeyLength and in the one after.    *)

KeyLength == 80
MaxCandidates == 3

(* str.lower() of one character: "I_dot" is U+0130, whose lower case is    *)
(* the two characters 'i' and U+0307                                        *)
LowerChar(c) ==
    CASE c = "A" -> <<"a">>
      [] c = "I_dot" -> <<"i", "dot_above">>
      [] OTHER -> <<c>>

RECURSIVE LowerChars(_)
LowerChars(s) ==
    IF s = <<>> THEN <<>> ELSE LowerChar(Head(s)) \o LowerChars(Tail(s))

(* key = ext['content'][:80].lower() *)
DedupKey(content) == LowerChars(FirstN(content, KeyLength))

(* for ext in extractions: if key not in seen: seen.add(key); unique.append(ext) *)
RECURSIVE Deduplicate(_, _)
Deduplicate(exts, seen) ==
    IF exts = <<>> THEN <<>>
    ELSE LET key == DedupKey(Head(exts).content)
         IN  IF key \notin seen
             THEN <<Head(exts)>> \o Deduplicate(Tail(exts), seen \cup {key})
             ELSE Deduplicate(Tail(exts), seen)

Pad(n) == [i \in 1..n |-> "x"]

SentenceHeads == {"a", "A", "I_dot"}
SentenceTails == {<<"a">>, <<"b">>, <<"a", "b">>, <<"b", "a">>}

Sentence(h, t) == <<h>> \o Pad(KeyLength - 2) \o t

Candidates ==
    {[type |-> ty, content |-> Sentence(h, t), entities |-> {}] :
        ty \in {"decision", "rejection"}, h \in SentenceHeads, t \in SentenceTails}

(* the list built by lines 160-182 *)
CandidateLists ==
    {l \in UNION {[1..n -> Candidates] : n \in 0..MaxCandidates} :
        \A i \in 1..Len(l), j \in 1..Len(l) :
            i < j => ~(l[i].type = "rejection" /\ l[j].type = "decision")}

InitDecisions == AtRest /\ call \in {Called("extract_decisions", l) : l \in CandidateLists}

ExtractDecisions == Return("extract_decisions", Deduplicate(call.arg, {}))

SpecDecisions == InitDecisions /\ [][ExtractDecisions]_vars

----------------------------------------------------------------------------
(* extract_decisions: from the matches to the candidates (lines 160-182).  *)
(* A match is the kind of its pattern and the slice text[start:end] that   *)
(* _get_sentence_around cuts around it; the slices are runs of characters  *)
(* of the lengths around the two limits, bare or between blanks, plain or  *)
(* beginning with braces or backticks.                                     *)

MinLength == 30
MaxLength == 500
MaxBraces == 3
MaxMatches == 2

(* str.strip() *)
RECURSIVE LStrip(_)
LStrip(s) == IF s # <<>> /\ Head(s) = " " THEN LStrip(Tail(s)) ELSE s

RECURSIVE RStrip(_)
RStrip(s) ==
    IF s # <<>> /\ s[Len(s)] = " " THEN RStrip(SubSeq(s, 1, Len(s) - 1)) ELSE s

Strip(s) == RStrip(LStrip(s))

(* return text[start:end].strip() *)
SentenceOf(slice) == Strip(slice)

(* sentence.count('{') + sentence.count('}') *)
Braces(sentence) ==
    Cardinality({i \in 1..Len(sentence) : sentence[i] = "{"})
    + Cardinality({i \in 1..Len(sentence) : sentence[i] = "}"})

is_valid_extraction_Exclusive(sentence) ==
    /\ ~(Len(sentence) <= MinLength \/ Len(sentence) >= MaxLength)
    /\ ~(Braces(sentence) > MaxBraces)
    /\ ~Contains(sentence, <<"backtick", "backtick", "backtick">>)

is_valid_extraction(sentence) ==
    /\ ~(Len(sentence) < MinLength \/ Len(sentence) > MaxLength)
    /\ ~(Braces(sentence) > MaxBraces)
    /\ ~Contains(sentence, <<"backtick", "backtick", "backtick">>)

(* the two loops over the patterns and their matches *)
RECURSIVE CandidatesOf(_)
CandidatesOf(matches) ==
    IF matches = <<>> THEN <<>>
    ELSE LET sentence == SentenceOf(Head(matches).slice)
         IN  (IF is_valid_extraction(sentence)
              THEN <<[type |-> Head(matches).type, content |-> Strip(sentence),
                      entities |-> {}]>>
              ELSE <<>>)
             \o CandidatesOf(Tail(matches))

extract_decisions(matches) == Deduplicate(CandidatesOf(matches), {})

SliceLengths == {MinLength - 1, MinLength, MaxLength, MaxLength + 1}

SliceStarts == {
    <<>>,
    <<"{", "}", "{">>,
    <<"{", "{", "}", "}">>,
    <<"backtick", "backtick">>,
    <<"backtick", "backtick", "backtick">> }

(* n characters between the blanks, if any *)
Slice(blanks, start, n) ==
    (IF blanks THEN <<" ">> ELSE <<>>)
    \o start \o <<"y", " ">> \o Pad(n - Len(start) - 2)
    \o (IF blanks THEN <<" ", " ">> ELSE <<>>)

Matches ==
    {[type |-> ty, slice |-> Slice(blanks, start, n)] :
        ty \in {"decision", "rejection"}, blanks \in BOOLEAN,
        start \in SliceStarts, n \in SliceLengths}

MatchLists ==
    {l \in UNION {[1..n -> Matches] : n \in 0..MaxMatches} :
        \A i \in 1..Len(l), j \in 1..Len(l) :
            i < j => ~(l[i].type = "rejection" /\ l[j].type = "decision")}

InitSentences == AtRest /\ call \in {Called("extract_sentences", l) : l \in MatchLists}

ExtractSentences == Return("extract_sentences", extract_decisions(call.arg))

SpecSentences == InitSentences /\ [][ExtractSentences]_vars

----------------------------------------------------------------------------
(* Properties *)

Captured(f) == flows[f].pc \in {"captured", "done"} /\ flows[f].result # "ignored"

(* the invocation t took the entry of its flow out of pending_requests *)
Consumed(t) == resp[t].pc \notin {"idle", "pop"} /\ resp[t].result \notin {"noop", "keyerror"}

Writes == conversations' # conversations \/ extractions' # extractions \/ links' # links

Abs(x) == IF x < 0 THEN -x ELSE x

(* C1: no two extraction rows with the same content, in conversations of   *)
(* the same project, have conversation timestamps less than the window     *)
(* apart.                                                                   *)
C1_ContentUniqueInWindow ==
    \A i, j \in Joined :
        (/\ i < j
         /\ extractions[i].content = extractions[j].content
         /\ ConvOf(i).project_id # NoProject
         /\ ConvOf(i).project_id = ConvOf(j).project_id)
        => Abs(ConvOf(i).timestamp - ConvOf(j).timestamp) >= WindowTicks

(* C2: at any moment, an attempt to persist a content for the project is   *)
(* rejected as a duplicate exactly when a row with that content was        *)
(* written for the project less than the window ago: rejected within the   *)
(* window, accepted again once it has elapsed.                              *)
C2_RejectedWithinWindowAcceptedAfter ==
    current_project_id # NoProject =>
        \A content \in {CandA.content, CandB.content} :
            LET written == {ConvOf(i).timestamp : i \in
                              {j \in Joined : /\ extractions[j].content = content
                                              /\ ConvOf(j).project_id = current_project_id}}
            IN  is_duplicate_extraction(content, current_project_id, WindowSeconds, FALSE)
                <=> \E w \in written : LocalNow - w < WindowTicks

(* C3: a call of store_conversation commits rows only if its candidate     *)
(* list is empty or a candidate survived the duplicate filter; a call      *)
(* whose candidates are all duplicates ends at the decision, writing       *)
(* nothing.                                                                 *)
C3_ConversationOnlyIfUnique ==
    [][/\ Writes =>
            \E t \in Responders :
                /\ resp[t].pc = "commit" /\ resp'[t].result = "stored"
                /\ (resp[t].cands = <<>> \/ resp[t].uniq # <<>>)
       /\ \A t \in Responders :
            (/\ resp[t].pc = "decide" /\ resp'[t] # resp[t]
             /\ resp[t].cands # <<>> /\ resp[t].uniq = <<>>)
            => (resp'[t] = Done("skipped") /\ ~Writes /\ writer' = writer)]_vars

C3_Witness ==
    \E t \in Responders :
        /\ resp[t].result = "skipped"
        /\ Len(conversations) = 1 /\ Len(extractions) = 1

(* C4: no entry is consumed by two response callbacks, and an entry that   *)
(* was inserted and not consumed is in the map, whatever was inserted or   *)
(* removed for other ids meanwhile.                                         *)
C4_ConsumedOnceNoLostInsert ==
    \A f \in Flows :
        /\ Cardinality({t \in Responders : t[1] = f /\ Consumed(t)}) <= 1
        /\ (Captured(f) /\ ~\E t \in Responders : t[1] = f /\ Consumed(t))
              => f \in DOMAIN pending_requests

C4_Witness ==
    /\ Consumed(<<1, 1>>)
    /\ resp[<<1, 2>>].result = "keyerror"
    /\ flows[2].pc = "captured"
    /\ 2 \in DOMAIN pending_requests

(* C5: a response callback that finds its id not in pending_requests       *)
(* returns at once: the map and the tables are unchanged and nothing is    *)
(* logged as an error.                                                      *)
C5_UnknownIdIsNoOp ==
    [][\A t \in Responders :
          (resp[t].pc = "idle" /\ resp'[t].pc # "idle"
           /\ t[1] \notin DOMAIN pending_requests)
          => /\ resp'[t] = Done("noop")
             /\ UNCHANGED <<pending_requests, conversations, extractions, links, writer>>]_vars

C5_Witness ==
    /\ \E t \in Responders : resp[t].result = "noop" /\ flows[t[1]].result = "ignored"
    /\ Consumed(<<1, 1>>) /\ resp[<<1, 2>>].result = "noop"

(* C6: once the response callback of a captured exchange has taken the     *)
(* entry, and after it has returned however it ended, the id is not in     *)
(* pending_requests.                                                        *)
C6_EntryRemovedWhateverOutcome ==
    \A t \in Responders :
        (Captured(t[1]) /\ (Consumed(t) \/ resp[t].pc = "done"))
            => t[1] \notin DOMAIN pending_requests

C6_Witness ==
    /\ resp[<<1, 1>>].result = "failed"
    /\ resp[<<2, 1>>].result = "nothing"
    /\ DOMAIN pending_requests = {}
    /\ Captured(1) /\ Captured(2)

(* C7: no entry of pending_requests outlives a bounded age: here, none    *)
(* gets as old as the span the clock is observed over.                     *)
C7_EntryLifetimeBounded ==
    \A f \in DOMAIN pending_requests :
        LocalNow - pending_requests[f].timestamp < MaxClock

(* C11: the tables change only by the commit of one call, which adds its   *)
(* conversation, the extraction of every surviving candidate and all their *)
(* links in one step; a call that ends in a storage failure leaves the     *)
(* tables as they were and is over (no retry); and no committed row refers *)
(* to a row that is not committed.                                          *)
C11_AllOrNothing ==
    [][/\ Writes =>
            \E t \in Responders :
                /\ resp[t].pc = "commit" /\ resp'[t].result = "stored"
                /\ Len(resp[t].exts) = Len(resp[t].uniq)
                /\ conversations' = Append(conversations, resp[t].conv)
                /\ extractions' = extractions \o resp[t].exts
                /\ links' = links \cup resp[t].lnks
                /\ \A k \in 1..Len(resp[t].exts) :
                      resp[t].exts[k].conversation_id = Len(conversations')
                /\ \A l \in resp[t].lnks :
                      l.source_id \in (Len(extractions) + 1)..Len(extractions')
       /\ \A t \in Responders :
            /\ (resp[t].pc # "done" /\ resp'[t].result = "failed") => ~Writes
            /\ resp[t].pc = "done" => resp'[t] = resp[t]]_vars

C11_Witness ==
    \E t, u \in Responders :
        /\ resp[t].result = "failed"
        /\ resp[u].pc = "commit" /\ Len(resp[u].exts) = 2 /\ resp[u].lnks # {}
        /\ conversations = <<>> /\ extractions = <<>> /\ links = {}

(* C12: an exchange whose processing failed is skipped: nothing of it is   *)
(* persisted, so the duplicate checks and the contexts of later exchanges  *)
(* are what they would be without it.  A conversation is stored only for   *)
(* an exchange whose request callback ended without an error.               *)
C12_FailedExchangeIsSkipped ==
    \A t \in Responders :
        resp[t].result = "stored" => flows[t[1]].result = "ok"

(* C13: a pass of the filter loop drops its candidate only when the query  *)
(* ran and found a row; in every other case, the query failing included,   *)
(* the candidate is kept, and a call that kept a candidate is not skipped: *)
(* it goes on to the inserts.                                               *)
C13_FailOpen ==
    [][\A t \in Responders :
          /\ (resp[t].pc = "dedup" /\ resp'[t] # resp[t]) =>
                LET ext == resp[t].cands[resp[t].i] IN
                \/ resp'[t].uniq = Append(resp[t].uniq, ext)
                \/ /\ resp'[t].uniq = resp[t].uniq
                   /\ DuplicateRows(ext.content, current_project_id, WindowSeconds) # {}
          /\ (resp[t].pc = "decide" /\ resp'[t] # resp[t] /\ resp[t].uniq # <<>>) =>
                resp'[t].result \in {"", "failed"}]_vars

(* the history holds the content, the clock has not moved, no other call   *)
(* runs: the duplicate was stored because its query failed                  *)
C13_Witness ==
    /\ resp[One].result = "stored"
    /\ current_project_id = 1
    /\ Len(extractions) = Len(OldExtractions) + 1
    /\ extractions[Len(extractions)].content = OldExtractions[1].content
    /\ ConvOf(Len(extractions)).project_id = ConvOf(1).project_id

(* C17: the links are exactly one per persisted extraction and structure   *)
(* of the extraction's project whose name is one of its entities, typed by *)
(* the extraction's type; rows of a conversation without project, entities *)
(* without a structure and structures of other projects have none, and no  *)
(* link refers to a candidate that was not persisted.                       *)
C17_LinksExactlyPerMatch ==
    links = {[source_id |-> p[1], target_id |-> p[2].id,
              link_type |-> IF extractions[p[1]].type = "decision"
                            THEN "decision" ELSE "rejected"] :
               p \in {q \in (1..Len(extractions)) \X Structures :
                        /\ ConvOf(q[1]).project_id # NoProject
                        /\ q[2].project_id = ConvOf(q[1]).project_id
                        /\ q[2].name \in extractions[q[1]].entities}}

(* the history's decision is filtered out as a duplicate, the rejection is *)
(* stored and linked to the project's structure Foo, nothing for Bar       *)
C17_Witness ==
    /\ resp[One].result = "stored"
    /\ Len(extractions) = Len(OldExtractions) + 1
    /\ extractions[Len(extractions)].content = CandC.content
    /\ links = OldLinks \cup
                {[source_id |-> Len(extractions), target_id |-> 1, link_type |-> "rejected"]}

(* request() was called for flow f with a host that contains none of the *)
(* known hosts                                                            *)
Unrecognized(f) ==
    /\ flows[f].pc # "new"
    /\ \A target \in TARGET_HOSTS : ~Contains(flows[f].host, target)

UnrecognizedLeftAlone ==
    \A f \in Flows :
        Unrecognized(f) =>
            /\ f \notin DOMAIN pending_requests
            /\ flows[f].out = flows[f].body
            /\ flows[f].context = <<>>
            /\ \A t \in Responders : t[1] = f => resp[t].result \in {"", "noop"}

ResponseLeavesBodies ==
    /\ resp' # resp => flows' = flows
    /\ \A t \in Responders :
          Unrecognized(t[1]) /\ resp'[t] # resp[t] => ~Writes

(* C19: a request to an unrecognized host creates no pending entry and     *)
(* leaves the request body as it was, the response callback of that        *)
(* exchange returns at once and writes no row; and no step of a response   *)
(* callback changes the request of any exchange.                           *)
C19_UnrecognizedIsNoOp == []UnrecognizedLeftAlone /\ [][ResponseLeavesBodies]_vars

(* the request to an unrecognized host came with a body, and the response  *)
(* callback of the exchange has returned                                   *)
C19_Witness ==
    \E f \in Flows :
        /\ Unrecognized(f)
        /\ flows[f].body # EmptyBody
        /\ resp[<<f, 1>>].result = "noop"

(* the time, in ticks, since row i's conversation was written: its time  *)
(* stamp is the local time of the write, and the offset does not change   *)
ElapsedSince(i) == clock - (ConvOf(i).timestamp - tz * TicksPerSecond)

(* C22: at every instant and for every offset of the local time from UTC, *)
(* a content is reported as a duplicate by _is_duplicate_extraction if and *)
(* only if a row with that content, of the project, was written less than *)
(* window_seconds ago.                                                     *)
C22_InWindowIffWrittenWithinWindow ==
    current_project_id # NoProject =>
        \A content \in {extractions[i].content : i \in 1..Len(extractions)} :
            is_duplicate_extraction(content, current_project_id, WindowSeconds, FALSE)
            <=> \E i \in Joined :
                    /\ extractions[i].content = content
                    /\ ConvOf(i).project_id = current_project_id
                    /\ ElapsedSince(i) < WindowSeconds * TicksPerSecond

CandidateContents == {CandA.content, CandB.content, CandC.content}

(* with the project unknown no content is a duplicate, and a call of      *)
(* store_conversation past its filter has kept every candidate             *)
NothingFilteredWithoutProject ==
    current_project_id = NoProject =>
        /\ \A content \in CandidateContents, failed \in BOOLEAN :
              ~is_duplicate_extraction(content, current_project_id, WindowSeconds, failed)
        /\ \A t \in Responders :
              /\ resp[t].pc \in {"decide", "insert", "commit"} => resp[t].uniq = resp[t].cands
              /\ resp[t].result # "skipped"

(* the commit of t writes one conversation and the rows of all candidates *)
CommitWritesAllCandidates(t) ==
    /\ conversations' = Append(conversations, resp[t].conv)
    /\ Len(extractions') = Len(extractions) + Len(resp[t].cands)
    /\ \A k \in 1..Len(resp[t].cands) :
          /\ extractions'[Len(extractions) + k].content = resp[t].cands[k].content
          /\ extractions'[Len(extractions) + k].type = resp[t].cands[k].type
          /\ extractions'[Len(extractions) + k].conversation_id = Len(conversations')

StoredMeansAllWritten ==
    current_project_id = NoProject =>
        \A t \in Responders :
            resp[t].pc = "commit" /\ resp'[t].result = "stored" =>
                CommitWritesAllCandidates(t)

(* the call of store_conversation made by t with candidates ends *)
StoreEnds(t) ==
    /\ resp[t].pc \in {"dedup", "decide", "insert", "commit"}
    /\ resp[t].cands # <<>>
    /\ resp'[t].pc = "done"

----------------------------------------------------------------------------
(* Properties of one exchange with a given response (SpecExchange) *)

(* the rows that were there before the exchange *)
HistoryLength ==
    IF conversations # <<>> /\ conversations[1] = OldConversations[1]
    THEN Len(OldExtractions) ELSE 0

(* kind and content of the rows the exchange wrote *)
WrittenRows ==
    [k \in 1..(Len(extractions) - HistoryLength) |->
        [type |-> extractions[HistoryLength + k].type,
         content |-> extractions[HistoryLength + k].content]]

(* the history holds the content for the project, inside the window *)
InHistory(content) ==
    /\ current_project_id # NoProject
    /\ \E i \in 1..HistoryLength :
          /\ extractions[i].content = content
          /\ ConvOf(i).project_id = current_project_id
          /\ (ConvOf(i).timestamp \div TicksPerSecond)
                > (clock \div TicksPerSecond) - 300

(* the candidates found in the response *)
CandidatesIn(r) ==
    IF r.kind = "content"
    THEN [k \in 1..Len(r.cands) |-> [type |-> r.cands[k].type, content |-> r.cands[k].content]]
    ELSE <<>>

(* C24: the rows an exchange writes are given by its response, the project *)
(* and the history, whatever the request body was: they are candidates of  *)
(* the response, in their order, and unless storage failed all those the   *)
(* history does not already hold are among them.                           *)
C24_RowsGivenByResponse ==
    resp[One].pc = "done" =>
        LET cands == CandidatesIn(call.arg)
            IsWritten(c) == \E k \in 1..Len(WrittenRows) : WrittenRows[k] = c
            IsFresh(c) == ~InHistory(c.content)
        IN  /\ WrittenRows = SelectSeq(cands, IsWritten)
            /\ resp[One].result # "failed" =>
                  \A k \in 1..Len(cands) : IsFresh(cands[k]) => IsWritten(cands[k])

----------------------------------------------------------------------------
(* Properties of context synthesis (SpecContext) *)

ContextHeaders == {"### Recent Decisions", "### Approaches Rejected"}

(* the bullets listed under a header: the lines after it up to the next *)
(* header or the end                                                     *)
BulletsUnder(context, header) ==
    LET at == {i \in 1..Len(context) : context[i] = header}
    IN  IF at = {} THEN <<>>
        ELSE LET i == CHOOSE x \in at : \A y \in at : x <= y
                 stops == {j \in (i + 1)..Len(context) : context[j] \in ContextHeaders}
                 end == IF stops = {} THEN Len(context) + 1
                        ELSE CHOOSE x \in stops : \A y \in stops : x <= y
             IN SubSeq(context, i + 1, end - 1)

HasTimeStamp(context) ==
    \E i \in 1..(Len(context) - 1) :
        context[i] = "**Current time:**" /\ context[i + 1] = Strftime(LocalNow)

(* the decision/rejection rows the query ranges over *)
Eligible ==
    {i \in 1..Len(extractions) :
        /\ extractions[i].type \in {"decision", "rejection"}
        /\ current_project_id # NoProject =>
               ConvOf(i).project_id = current_project_id}

NotOlder(i, j) ==
    IF current_project_id # NoProject
    THEN ConvOf(i).timestamp >= ConvOf(j).timestamp
    ELSE i > j

(* S is a choice of the n most recent eligible rows *)
MostRecent(S, n) ==
    /\ S \subseteq Eligible
    /\ Cardinality(S) = (IF Cardinality(Eligible) < n THEN Cardinality(Eligible) ELSE n)
    /\ \A i \in S, j \in Eligible \ S : NotOlder(i, j)

ContentsIn(S, type) == {extractions[i].content : i \in {j \in S : extractions[j].type = type}}

BulletsWithin(context) ==
    LET decisions == BulletsUnder(context, "### Recent Decisions")
        rejections == BulletsUnder(context, "### Approaches Rejected")
    IN  /\ Len(decisions) <= 5
        /\ Len(rejections) <= 3
        /\ \E S \in SUBSET Eligible :
              /\ MostRecent(S, IF current_project_id # NoProject THEN 10 ELSE 5)
              /\ \A k \in 1..Len(decisions) : decisions[k] \in ContentsIn(S, "decision")
              /\ \A k \in 1..Len(rejections) : rejections[k] \in ContentsIn(S, "rejection")

(* C18, as stated: for any persisted history the context lists at most 5   *)
(* decision bullets and at most 3 rejection bullets, one line each, drawn  *)
(* from the 10 most recent decision/rejection extractions of the project   *)
(* by conversation timestamp (the 5 most recent by id when the project is  *)
(* unknown), and it always contains the current-time stamp.                *)
C18_ContextAlwaysStamped ==
    Returned("get_relevant_context") =>
        /\ BulletsWithin(call.ret.context)
        /\ HasTimeStamp(call.ret.context)

(* C18, amended: the bounds and the recency of the bullets hold of every   *)
(* context; the time stamp is there, with or without decisions, exactly    *)
(* when the query succeeded; when storage failed the context is empty.     *)
(* A bullet is the stored content of its row, in full.                     *)
C18_ContextStampedUnlessFailed ==
    Returned("get_relevant_context") =>
        /\ BulletsWithin(call.ret.context)
        /\ ~call.ret.failed => HasTimeStamp(call.ret.context)
        /\ call.ret.failed => call.ret.context = <<>>

(* more rows than the limits, written against the order of their time      *)
(* stamps: 5 decisions and 3 rejections listed, the newest rows left out   *)
(* being the ones of highest id                                            *)
C18_Witness ==
    /\ Returned("get_relevant_context")
    /\ ~call.ret.failed
    /\ current_project_id # NoProject
    /\ Cardinality(Eligible) > 10
    /\ \E i \in Eligible, j \in Eligible : i < j /\ ConvOf(i).timestamp > ConvOf(j).timestamp
    /\ Len(BulletsUnder(call.ret.context, "### Recent Decisions")) = 5
    /\ Len(BulletsUnder(call.ret.context, "### Approaches Rejected")) = 3

----------------------------------------------------------------------------
(* Properties of provider identification (SpecHosts) *)

(* the providers in the order get_tool_from_host tries them, each with the *)
(* condition under which a lower-cased host matches it                      *)
ProviderOrder ==
    <<"claude", "openai", "gemini", "mistral", "cohere", "groq", "together",
      "perplexity", "fireworks", "replicate", "deepseek", "ollama", "lmstudio">>

ProviderMatches(provider, h) ==
    CASE provider = "claude" -> Contains(h, <<"anthropic">>)
      [] provider = "gemini" -> Contains(h, <<"generativelanguage.googleapis">>)
      [] provider = "ollama" ->
            \/ Contains(h, <<"11434">>)
            \/ Contains(h, <<"localhost">>) /\ ~Contains(h, <<"ollama">>)
      [] provider = "lmstudio" -> Contains(h, <<"1234">>)
      [] OTHER -> Contains(h, <<provider>>)

(* C14: the provider returned is the first of the order that matches the   *)
(* host, or "unknown" when none does, and the host is a target exactly     *)
(* when the provider is not "unknown".                                      *)
C14_OneProviderAndTargetIffKnown ==
    Returned("identify") =>
        LET h == Lower(call.arg)
            matching == {k \in 1..Len(ProviderOrder) : ProviderMatches(ProviderOrder[k], h)}
        IN  /\ IF matching = {}
               THEN call.ret.tool = "unknown"
               ELSE \E k \in matching :
                      /\ call.ret.tool = ProviderOrder[k]
                      /\ \A j \in matching : k <= j
            /\ call.ret.target <=> call.ret.tool # "unknown"

----------------------------------------------------------------------------
(* Properties of content extraction (SpecExtract) *)

(* what a line contributes: the fragments its event yields on its own;    *)
(* a line that is no event contributes nothing                              *)
FragmentsOf(line) ==
    IF line.kind = "json" THEN SseEvent(Started, line.data).content ELSE <<>>

RECURSIVE FragmentsInOrder(_)
FragmentsInOrder(lines) ==
    IF lines = <<>> THEN <<>>
    ELSE FragmentsOf(Head(lines)) \o FragmentsInOrder(Tail(lines))

(* C15: the text returned for a stream is the fragments of its well-formed *)
(* events in arrival order, whatever other lines stand between them.       *)
C15_FragmentsOfAllEventsInOrder ==
    Returned("parse_sse_content") => call.ret.content = FragmentsInOrder(call.arg)

(* C16: extraction returns a string and raises nothing, for a stream and   *)
(* for a JSON body of any shape.                                            *)
C16_ExtractionNeverRaises ==
    (Returned("parse_sse_content") \/ Returned("get_assistant_content"))
        => ~call.ret.raised

----------------------------------------------------------------------------
(* Properties of the deduplication of candidates (SpecDecisions) *)

(* the first 80 characters of the lower-cased text *)
LoweredPrefix(c) == FirstN(LowerChars(c.content), 80)

(* the candidates before which none has the same lowered prefix, in order *)
FirstOccurrences(l) ==
    LET F[i \in 0..Len(l)] ==
            IF i = 0 THEN <<>>
            ELSE IF \A j \in 1..(i - 1) : LoweredPrefix(l[j]) # LoweredPrefix(l[i])
                 THEN Append(F[i - 1], l[i])
                 ELSE F[i - 1]
    IN  F[Len(l)]

(* C20: no two returned candidates agree on the first 80 characters of     *)
(* their lower-cased text, and the list returned is the list of the first  *)
(* occurrences in scan order.                                              *)
C20_NoTwoAgreeOnLoweredPrefix ==
    Returned("extract_decisions") =>
        /\ \A i \in 1..Len(call.ret), j \in 1..Len(call.ret) :
              i < j => LoweredPrefix(call.ret[i]) # LoweredPrefix(call.ret[j])
        /\ call.ret = FirstOccurrences(call.arg)

----------------------------------------------------------------------------
(* Properties of the validity filter (SpecSentences) *)

(* the three tests, on the trimmed text *)
PassesTests(text) ==
    LET t == Strip(text)
    IN  /\ Len(t) >= 30 /\ Len(t) <= 500
        /\ Cardinality({i \in 1..Len(t) : t[i] \in {"{", "}"}}) <= 3
        /\ \A i \in 1..(Len(t) - 2) : ~(t[i] = "backtick" /\ t[i + 1] = "backtick" /\ t[i + 2] = "backtick")

(* C21: every candidate returned has a content that passes the three tests *)
(* (trimmed length from 30 to 500, at most 3 braces, no triple backtick);  *)
(* the sentence of a match that fails one of them is not returned, and the *)
(* sentence of a match that passes them is, or an earlier one with the     *)
(* same deduplication key.                                                 *)
C21_ReturnedIffValid ==
    Returned("extract_sentences") =>
        /\ \A k \in 1..Len(call.ret) : PassesTests(call.ret[k].content)
        /\ \A i \in 1..Len(call.arg) :
              IF PassesTests(call.arg[i].slice)
              THEN \E k \in 1..Len(call.ret) :
                      DedupKey(call.ret[k].content) = DedupKey(Strip(call.arg[i].slice))
              ELSE \A k \in 1..Len(call.ret) :
                      call.ret[k].content # Strip(call.arg[i].slice)

(* a slice of 500 characters between blanks, with 3 braces, is returned,   *)
(* and the slice of another match is dropped                               *)
C21_Witness ==
    /\ Returned("extract_sentences")
    /\ Len(call.arg) = 2 /\ Len(call.ret) = 1
    /\ Len(call.ret[1].content) = 500
    /\ Cardinality({i \in 1..500 : call.ret[1].content[i] \in {"{", "}"}}) = 3
    /\ \E i \in 1..2 : Len(call.arg[i].slice) > 500 /\ PassesTests(call.arg[i].slice)

----------------------------------------------------------------------------
(* Properties of one request callback (SpecRequest) *)

Req == flows[1]
Forwarded == Req.pc = "done" /\ Req.result # "ignored"
Injectable == Forwarded /\ Req.body.kind = "object" /\ Req.context # <<>>

OnAnthropic == Contains(Lower(Req.host), <<"anthropic">>)
OnGemini == Contains(Lower(Req.host), <<"generativelanguage.googleapis">>)
OnCohere == Contains(Lower(Req.host), <<"cohere">>)
HasMessages == Req.body.messages.t # "absent"

(* the strategies that apply to the request *)
SystemFieldApplies == OnAnthropic /\ HasMessages
LeadingMessageApplies == ~OnAnthropic /\ HasMessages
NumberApplying ==
    (IF HasMessages THEN 1 ELSE 0) + (IF OnGemini THEN 1 ELSE 0)
    + (IF OnCohere THEN 1 ELSE 0)

(* a field the strategy can prepend to *)
TextOrAbsent(x) == x.t \in {"absent", "text"}
LeadingMessageTyped(m) ==
    /\ m.t = "list"
    /\ m.v # <<>> => /\ m.v[1].role # "nondict"
                     /\ m.v[1].role = "system" => m.v[1].content.t = "text"
FieldsTyped ==
    /\ SystemFieldApplies => TextOrAbsent(Req.body.system)
    /\ LeadingMessageApplies => LeadingMessageTyped(Req.body.messages)
    /\ OnGemini => Req.body.system_instruction.t # "badparts"
    /\ OnCohere => TextOrAbsent(Req.body.preamble)

(* new is the context, then a blank line and the old text if there was one *)
AtFront(new, old, context) ==
    /\ new.t = "text"
    /\ IsPrefix(context, new.v)
    /\ old.t = "absent" => new.v = context
    /\ old.t = "text" =>
          SubSeq(new.v, Len(context) + 1, Len(new.v)) = <<SEP>> \o old.v

LeadingMessageAtFront(new, old, context) ==
    /\ new.t = "list" /\ new.v # <<>>
    /\ new.v[1].role = "system"
    /\ IF old.v # <<>> /\ old.v[1].role = "system"
       THEN /\ AtFront(new.v[1].content, old.v[1].content, context)
            /\ Tail(new.v) = Tail(old.v)
       ELSE /\ new.v[1].content = Text(context)
            /\ Tail(new.v) = old.v

InstructionAtFront(new, old, context) ==
    /\ new.t = "parts" /\ new.v # <<>>
    /\ IsPrefix(context, new.v[1])
    /\ IF old.t = "parts"
       THEN new.v[1] = context \o <<SEP>> /\ Tail(new.v) = old.v
       ELSE new.v = <<context>>

Occurrences(text, context) ==
    Cardinality({i \in 1..(Len(text) - Len(context) + 1) :
                    SubSeq(text, i, i + Len(context) - 1) = context})

RECURSIVE SumOccurrences(_, _)
SumOccurrences(texts, context) ==
    IF texts = <<>> THEN 0
    ELSE Occurrences(Head(texts), context) + SumOccurrences(Tail(texts), context)

TextOf(x) == IF x.t = "text" THEN <<x.v>> ELSE <<>>

RECURSIVE MessageTexts(_)
MessageTexts(ms) ==
    IF ms = <<>> THEN <<>> ELSE TextOf(Head(ms).content) \o MessageTexts(Tail(ms))

(* how many times the context occurs in the texts of a body *)
ContextCount(body, context) ==
    SumOccurrences(
        TextOf(body.system) \o TextOf(body.preamble)
        \o (IF body.messages.t = "list" THEN MessageTexts(body.messages.v) ELSE <<>>)
        \o (IF body.system_instruction.t = "parts" THEN body.system_instruction.v ELSE <<>>),
        context)

(* C8, as claimed: the forwarded body holds the context exactly once, at   *)
(* the front of the designated field with the old content after it; with   *)
(* an empty context the body is unchanged.                                  *)
C8_ContextExactlyOnce ==
    /\ (Injectable /\ FieldsTyped /\ NumberApplying > 0)
          => ContextCount(Req.out, Req.context) = 1
    /\ (Forwarded /\ Req.context = <<>>) => Req.out = Req.body

(* C8, amended: the context is at the front of the field of every strategy *)
(* that applies, once in each (so twice for a Gemini or Cohere host with   *)
(* messages), the old text after it, a system_instruction without a parts  *)
(* list replaced; the other fields are unchanged; if a designated field    *)
(* has a type that cannot be prepended to, the body is unchanged; with an  *)
(* empty context the body is unchanged.                                     *)
C8_ContextOncePerStrategy ==
    /\ (Injectable /\ FieldsTyped) =>
          /\ IF SystemFieldApplies
             THEN AtFront(Req.out.system, Req.body.system, Req.context)
             ELSE Req.out.system = Req.body.system
          /\ IF LeadingMessageApplies
             THEN LeadingMessageAtFront(Req.out.messages, Req.body.messages, Req.context)
             ELSE Req.out.messages = Req.body.messages
          /\ IF OnGemini
             THEN InstructionAtFront(Req.out.system_instruction,
                                     Req.body.system_instruction, Req.context)
             ELSE Req.out.system_instruction = Req.body.system_instruction
          /\ IF OnCohere
             THEN AtFront(Req.out.preamble, Req.body.preamble, Req.context)
             ELSE Req.out.preamble = Req.body.preamble
          /\ ContextCount(Req.out, Req.context) = NumberApplying
    /\ (Injectable /\ ~FieldsTyped) => (Req.out = Req.body /\ Req.result = "error")
    /\ (Forwarded /\ Req.body.kind = "object" /\ Req.context = <<>>)
          => ContextCount(Req.out, RenderContext(ContextRows)) = 0 /\ Req.out = Req.body

C8_Witness ==
    /\ Injectable /\ FieldsTyped
    /\ Req.host = HostAnthropic
    /\ Req.body.system = Text(OldText)
    /\ Req.out.system = Text(Req.context \o <<SEP>> \o OldText)
    /\ Len(Req.context) > 4

(* C9: the forwarded body is the original one when the context is empty    *)
(* or when the body has no messages and the host is neither Gemini nor     *)
(* Cohere.                                                                  *)
C9_NoContextOrNoStrategyUnchanged ==
    (Forwarded /\ (Req.context = <<>> \/ (~HasMessages /\ ~OnGemini /\ ~OnCohere)))
        => Req.out = Req.body

C9_Witness ==
    /\ Forwarded /\ Req.context = <<>>
    /\ Req.host = HostGemini
    /\ Req.body = ObjectBody(List(<<UserMsg>>), Absent, Parts(<<OldText>>), Absent)
    /\ Req.out = Req.body

====
